---- MODULE Spec2Model ----
(***************************************************************************)
(* A model of the arena allocator of src/arena.c (the same code is         *)
(* repeated in src/arena.h under ARENA_IMPLEMENTATION).                    *)
(*                                                                         *)
(* One arena variable of a single-threaded caller is modelled.  The chain  *)
(* of blocks is a sequence (chain[1] is the head, the caller's struct; the *)
(* next pointer of chain[i] is chain[i+1], NULL for the last one).  size_t *)
(* arithmetic is done modulo 2^WordBits.  The memory provider (malloc) is  *)
(* the environment: it hands out fresh handles, refuses requests above     *)
(* MallocMax and may run out, in which case arena_malloc calls exit(1).    *)
(***************************************************************************)
EXTENDS Integers, Sequences, FiniteSets, TLC

VARIABLES
  pc,      \* "start" before arena_init, "live" after it, "freed" after
          \* arena_free, "exited" after exit(1), "crashed" after undefined
          \* behaviour ended the process
  chain,   \* the blocks, head first: [capacity, size, data, self]
  heap,    \* the handles malloc has handed out and free has not taken back
  mem,     \* the content of each block's data
  allocs,  \* the pointers returned since the last reset or free
  stores,  \* how many regions of the arena's memory the caller has written
  last     \* the last call: its arguments, what the provider could supply
          \* during it, its result and the state before it

vars == <<pc, chain, heap, mem, allocs, stores, last>>

----------------------------------------------------------------------------
(* Bounds of the model *)

\* width of size_t in bits
WordBits == 10
\* longest chain a returning call may leave behind
MaxBlocks == 3
\* most handles the caller holds between two resets
MaxLive == 3
\* most blocks the provider supplies to one call before it runs out
MaxGrant == 2
\* most regions the caller writes
MaxStores == 1

(* Program constants *)

ARENA_INIT_SIZE == 128
ARENA_ALIGNMENT == 8
SIZEOF_ARENA == 32

NULL == 0

\* size_t values are 0 .. SIZE_MOD - 1
SIZE_MOD == 2 ^ WordBits
\* the largest request malloc can satisfy (PTRDIFF_MAX for this width)
MallocMax == (SIZE_MOD \div 2) - 1

\* the NULL pointer, and a pointer into a block's data
NullPtr == [data |-> NULL, off |-> 0]
Ptr(d, o) == IF d = NULL /\ o = 0 THEN NullPtr ELSE [data |-> d, off |-> o]

----------------------------------------------------------------------------
(* Inputs the caller draws from *)

InitCaps == {0, 12}
AllocSizes == {0, 1, 11, SIZE_MOD \div 2, SIZE_MOD - 8}
\* the inputs of a caller whose sizes stay far below the largest size_t
ModestSizes == {1, 11, 30}
\* the inputs of a caller that goes on after arena_free
ReuseSizes == {1, 11, SIZE_MOD - 3}
\* the inputs of a caller that repeats its allocations after a reset
ReplaySizes == {1, 11, 30, SIZE_MOD - 8}
\* the inputs of the caller that writes to memory
MemCaps == {12}
MemSizes == {0, 1, 11, SIZE_MOD - 8, SIZE_MOD - 3}
\* the provider is out of memory, or has MaxGrant blocks left
Grants == {0, MaxGrant}

----------------------------------------------------------------------------
(* The memory provider *)

\* a handle malloc has not handed out (the lowest one)
NewId(hp) ==
  CHOOSE i \in 1 .. (Cardinality(hp) + 1) :
    i \notin hp /\ \A j \in 1 .. (i - 1) : j \in hp

\* arena_malloc returns (TRUE) or calls exit(1) (FALSE)
arena_malloc(n, grant) == n <= MallocMax /\ grant > 0

\* The content of a region is a function from the offsets that have been
\* written to the byte there; malloc leaves every byte indeterminate.
RawBytes == <<>>

----------------------------------------------------------------------------
(* Pure functions of arena.c *)

\* x & ~(alignment - 1) for a power of two alignment
ClearLowBits(x, alignment) == x - (x % alignment)

\* a variant that forgets to round up
arena_align_none(size, alignment) == size

arena_align_size(size, alignment) ==
  ClearLowBits((size + alignment - 1) % SIZE_MOD, alignment)

\* a variant that keeps a capacity of 0
InitCapacityAsGiven(capacity) == capacity

\* the capacity arena_init gives the block (0 is replaced by the default)
InitCapacity(capacity) == IF capacity = 0 THEN ARENA_INIT_SIZE ELSE capacity

\* the struct arena_init returns, its data being the handle d
arena_init(capacity, d) ==
  [capacity |-> InitCapacity(capacity), size |-> 0, data |-> d, self |-> NULL]

\* a variant that forgets to add the request
NoRoomIgnoresSize(blk, size) == blk.size > blk.capacity

\* the loop condition of arena_alloc
NoRoom(blk, size) == (blk.size + size) % SIZE_MOD > blk.capacity

\* a variant that doubles only the request
NewCapacityNoDouble(arena, size) ==
  IF arena.capacity > size THEN arena.capacity ELSE (size * 2) % SIZE_MOD

\* new_capacity of arena_alloc; arena is the head block
NewCapacity(arena, size) ==
  IF arena.capacity > size
    THEN (arena.capacity * 2) % SIZE_MOD
    ELSE (size * 2) % SIZE_MOD

RECURSIVE SumCapacity(_, _)
SumCapacity(ch, i) ==
  IF i > Len(ch) THEN 0 ELSE (ch[i].capacity + SumCapacity(ch, i + 1)) % SIZE_MOD

RECURSIVE SumUsed(_, _)
SumUsed(ch, i) ==
  IF i > Len(ch) THEN 0 ELSE (ch[i].size + SumUsed(ch, i + 1)) % SIZE_MOD

arena_total_capacity(arg, ch) == IF arg = "null" THEN 0 ELSE SumCapacity(ch, 1)
arena_total_used(arg, ch) == IF arg = "null" THEN 0 ELSE SumUsed(ch, 1)

----------------------------------------------------------------------------
(* arena_alloc *)

\* the state the walk of arena_alloc carries
WalkStart(ch, hp, mm, grant) ==
  [chain |-> ch, heap |-> hp, mem |-> mm, grant |-> grant,
   appended |-> 0, out |-> "walk", blk |-> 0]

\* one pass through the body of "if (current->next == NULL)"
AppendBlock(st, size) ==
  LET new_capacity == NewCapacity(st.chain[1], size)
      next == NewId(st.heap)
      d == NewId(st.heap \cup {next})
      blk == [arena_init(new_capacity, d) EXCEPT !.self = next]
  IN  [st EXCEPT !.chain = Append(st.chain, blk),
                 !.heap = st.heap \cup {next, d},
                 !.mem = [x \in DOMAIN st.mem \cup {d} |->
                            IF x = d THEN RawBytes ELSE st.mem[x]],
                 !.grant = st.grant - 1,
                 !.appended = st.appended + 1]

\* whether both mallocs of one append succeed
AppendGranted(st, size) ==
  /\ arena_malloc(SIZEOF_ARENA, st.grant)
  /\ arena_malloc(InitCapacity(NewCapacity(st.chain[1], size)), st.grant)

\* the while loop of arena_alloc, current being chain[cur]
RECURSIVE arena_alloc_walk(_, _, _)
arena_alloc_walk(st, cur, size) ==
  IF NoRoom(st.chain[cur], size)
    THEN IF cur = Len(st.chain)
           THEN IF AppendGranted(st, size)
                  THEN arena_alloc_walk(AppendBlock(st, size), cur + 1, size)
                  ELSE [st EXCEPT !.out = "exit"]
           ELSE arena_alloc_walk(st, cur + 1, size)
    ELSE [st EXCEPT !.out = "ret", !.blk = cur]

\* variants that refuse no size, and that refuse a single byte too
SizeIsZeroNever(size) == FALSE
SizeIsZeroOrOne(size) == size <= 1

\* the tests "size == 0" of arena_alloc and "new_size == 0" of arena_realloc
SizeIsZero(size) == size = 0

\* arena_alloc on a non-NULL arena: the walk, then the bump
arena_alloc(ch, hp, mm, size, grant) ==
  IF SizeIsZero(size)
    THEN [WalkStart(ch, hp, mm, grant) EXCEPT !.out = "ret"]
         @@ [ret |-> NullPtr, asz |-> 0]
    ELSE
      LET asz == arena_align_size(size, ARENA_ALIGNMENT)
          w == arena_alloc_walk(WalkStart(ch, hp, mm, grant), 1, asz)
      IN  IF w.out = "exit"
            THEN w @@ [ret |-> NullPtr, asz |-> asz]
            ELSE LET current == w.chain[w.blk]
                 IN  [w EXCEPT !.chain[w.blk].size = (current.size + asz) % SIZE_MOD]
                     @@ [ret |-> Ptr(current.data, current.size), asz |-> asz]

----------------------------------------------------------------------------
(* The state machine *)

\* the largest used counter of a block of the chain
RECURSIVE LargestUsed(_, _)
LargestUsed(ch, i) ==
  IF i > Len(ch) THEN 0
  ELSE LET rest == LargestUsed(ch, i + 1)
       IN  IF ch[i].size > rest THEN ch[i].size ELSE rest

\* what the caller measured before a call of arena_reset
NoMeasure == [reset |-> FALSE, total |-> 0, largest |-> 0]
Measure(ch) ==
  [reset |-> TRUE, total |-> arena_total_used("arena", ch),
   largest |-> LargestUsed(ch, 1)]

\* the state before a call; "measured" is set when the call before it was an
\* arena_reset, to what was in use before that reset
Snapshot ==
  [chain |-> chain, heap |-> heap, mem |-> mem, allocs |-> allocs,
   measured |-> IF last.op = "reset" /\ last.arena = "arena"
                  THEN Measure(last.pre.chain) ELSE NoMeasure]

NoCall ==
  [op |-> "none", arena |-> "null", size |-> 0, old |-> NullPtr, old_size |-> 0,
   out |-> "ret", ret |-> NullPtr, asz |-> 0, blk |-> 0, appended |-> 0,
   grant |-> MaxGrant,
   pre |-> [chain |-> <<>>, heap |-> {}, mem |-> <<>>, allocs |-> <<>>,
            measured |-> NoMeasure]]

Init ==
  /\ pc = "start"
  /\ chain = <<>>
  /\ heap = {}
  /\ mem = <<>>
  /\ allocs = <<>>
  /\ stores = 0
  /\ last = NoCall

\* arena = arena_init(capacity), on a variable that owns no memory
ArenaInit(capacity, grant) ==
  /\ pc \in {"start", "freed"}
  /\ UNCHANGED stores
  /\ heap = {}
  /\ LET d == NewId(heap)
         a == arena_init(capacity, d)
     IN  IF arena_malloc(a.capacity, grant)
           THEN /\ pc' = "live"
                /\ chain' = <<a>>
                /\ heap' = {d}
                /\ mem' = [x \in {d} |-> RawBytes]
                /\ allocs' = <<>>
                /\ last' = [NoCall EXCEPT !.op = "init", !.arena = "arena",
                                          !.size = capacity, !.pre = Snapshot]
           ELSE /\ pc' = "exited"
                /\ last' = [NoCall EXCEPT !.op = "init", !.arena = "arena",
                                          !.size = capacity, !.out = "exit",
                                          !.pre = Snapshot]
                /\ UNCHANGED <<chain, heap, mem, allocs>>

\* the handle record the caller keeps for a returned pointer
Handle(r, size) ==
  [data |-> r.ret.data, off |-> r.ret.off, req |-> size, asz |-> r.asz, blk |-> r.blk]

\* p = arena_alloc(arg, size)
ArenaAlloc(arg, size, grant) ==
  /\ pc \in {"live", "freed"}
  /\ UNCHANGED stores
  /\ IF arg = "null"
       THEN /\ last' = [NoCall EXCEPT !.op = "alloc", !.size = size, !.pre = Snapshot]
            /\ UNCHANGED <<pc, chain, heap, mem, allocs>>
       ELSE LET r == arena_alloc(chain, heap, mem, size, grant)
            IN  /\ last' = [NoCall EXCEPT !.op = "alloc", !.arena = "arena",
                                          !.size = size, !.out = r.out, !.ret = r.ret,
                                          !.asz = r.asz, !.blk = r.blk,
                                          !.appended = r.appended, !.grant = grant,
                                          !.pre = Snapshot]
                /\ chain' = r.chain
                /\ heap' = r.heap
                /\ mem' = r.mem
                /\ IF r.out = "exit"
                     THEN pc' = "exited" /\ UNCHANGED allocs
                     ELSE /\ Len(r.chain) <= MaxBlocks
                          /\ UNCHANGED pc
                          /\ IF size = 0
                               THEN UNCHANGED allocs
                               ELSE /\ Len(allocs) < MaxLive
                                    /\ allocs' = Append(allocs, Handle(r, size))

\* variants that clear one block only
arena_reset_one(ch, cur) == [ch EXCEPT ![cur].size = 0]
arena_reset_head(ch, cur) == [ch EXCEPT ![1].size = 0]

\* a variant that unchains the blocks behind the head
arena_reset_unchain(ch, cur) == <<[ch[1] EXCEPT !.size = 0]>>

\* the loop of arena_reset
RECURSIVE arena_reset(_, _)
arena_reset(ch, cur) ==
  IF cur > Len(ch) THEN ch
  ELSE arena_reset([ch EXCEPT ![cur].size = 0], cur + 1)

\* arena_reset(arg); the caller drops the handles it held
ArenaReset(arg) ==
  /\ pc \in {"live", "freed"}
  /\ UNCHANGED stores
  /\ last' = [NoCall EXCEPT !.op = "reset", !.arena = arg, !.pre = Snapshot]
  /\ IF arg = "null"
       THEN UNCHANGED <<pc, chain, heap, mem, allocs>>
       ELSE /\ chain' = arena_reset(chain, 1)
            /\ allocs' = <<>>
            /\ UNCHANGED <<pc, heap, mem>>

\* a variant that leaves the structs of the later blocks allocated
FreeCallsDataOnly(ch) == [k \in 1 .. Len(ch) |-> ch[k].data]

\* the pointers arena_free passes to free(), in order: data of the head, then
\* data and struct of each later block
FreeCalls(ch) ==
  [k \in 1 .. (2 * Len(ch) - 1) |->
     IF k = 1 THEN ch[1].data
     ELSE IF k % 2 = 0 THEN ch[(k \div 2) + 1].data
     ELSE ch[((k - 1) \div 2) + 1].self]

\* the handles these calls release (free(NULL) does nothing)
FreedHandles(ch) ==
  {FreeCalls(ch)[k] : k \in 1 .. Len(FreeCalls(ch))} \ {NULL}

arena_free(ch) ==
  <<[ch[1] EXCEPT !.capacity = 0, !.size = 0, !.data = NULL]>>

\* arena_free(arg)
ArenaFree(arg) ==
  /\ pc \in {"live", "freed"}
  /\ last' = [NoCall EXCEPT !.op = "free", !.arena = arg, !.pre = Snapshot]
  /\ IF arg = "null"
       THEN UNCHANGED <<pc, chain, heap, mem, allocs, stores>>
       ELSE /\ chain' = arena_free(chain)
            /\ stores' = 0
            /\ heap' = heap \ FreedHandles(chain)
            /\ mem' = [x \in DOMAIN mem \ FreedHandles(chain) |-> mem[x]]
            /\ allocs' = <<>>
            /\ pc' = "freed"

----------------------------------------------------------------------------
(* Memory content, memcpy and arena_realloc *)

\* the byte the caller stores at the i-th position of a region
StoreByte(i) == (i % 5) + 1

\* mm after the caller has written the first n bytes behind pointer p
WriteBytes(mm, p, n) ==
  [mm EXCEPT ![p.data] =
     [o \in DOMAIN mm[p.data] \cup (p.off .. (p.off + n - 1)) |->
        IF o >= p.off /\ o < p.off + n THEN StoreByte(o - p.off) ELSE mm[p.data][o]]]

\* the capacity of the block whose data is the handle d
CapacityOf(ch, d) ==
  LET i == CHOOSE j \in 1 .. Len(ch) : ch[j].data = d IN ch[i].capacity

\* memcpy(dst, src, n) is defined when both ranges lie inside their blocks
\* and do not overlap
MemcpyDefined(ch, dst, src, n) ==
  \/ n = 0
  \/ /\ dst.data # NULL /\ src.data # NULL
     /\ dst.off + n <= CapacityOf(ch, dst.data)
     /\ src.off + n <= CapacityOf(ch, src.data)
     /\ \/ dst.data # src.data
        \/ dst.off + n <= src.off
        \/ src.off + n <= dst.off

\* mm after n bytes have been copied from src to dst; a byte that is
\* indeterminate in the source is indeterminate in the copy; bytes past the
\* end of the destination block are not part of the arena's memory
memcpy(ch, mm, dst, src, n) ==
  LET cap == CapacityOf(ch, dst.data)
      range == {o \in dst.off .. (dst.off + n - 1) : o < cap}
      from(o) == src.off + (o - dst.off)
      written == {o \in range : from(o) \in DOMAIN mm[src.data]}
      kept == DOMAIN mm[dst.data] \ range
  IN  [mm EXCEPT ![dst.data] =
         [o \in kept \cup written |->
            IF o \in written THEN mm[src.data][from(o)] ELSE mm[dst.data][o]]]

\* a variant that returns NULL for a NULL old_ptr
arena_realloc_null_refuses(ch, hp, mm, new_size, grant) ==
  [WalkStart(ch, hp, mm, grant) EXCEPT !.out = "ret"] @@ [ret |-> NullPtr, asz |-> 0]

\* the branch "old_ptr == NULL" of arena_realloc
arena_realloc_null(ch, hp, mm, new_size, grant) ==
  arena_alloc(ch, hp, mm, new_size, grant)

\* a variant that copies when the sizes are equal
KeepsOldStrict(old_size, new_size) == new_size < old_size

\* the test "new_size <= old_size" of arena_realloc
KeepsOld(old_size, new_size) == new_size <= old_size

\* the caller fills the region it was handed last
Store ==
  /\ pc = "live"
  /\ last.op \in {"alloc", "realloc"}
  /\ last.out = "ret"
  /\ last.ret # NullPtr
  /\ \E i \in 1 .. Len(allocs) :
       /\ Ptr(allocs[i].data, allocs[i].off) = last.ret
       /\ allocs[i].off + allocs[i].req <= CapacityOf(chain, allocs[i].data)
       /\ mem' = WriteBytes(mem, last.ret, allocs[i].req)
  /\ stores < MaxStores
  /\ stores' = stores + 1
  /\ last' = [last EXCEPT !.op = "store", !.pre = Snapshot]
  /\ UNCHANGED <<pc, chain, heap, allocs>>

\* the pointers the caller can pass as old_ptr, with the sizes it passes:
\* NULL with an old_size of olds, and those of the pointers it holds whose
\* index is in held
OldPtrs(held, olds) ==
  {[ptr |-> NullPtr, old_size |-> n] : n \in olds}
  \cup {[ptr |-> Ptr(allocs[i].data, allocs[i].off), old_size |-> allocs[i].req] :
          i \in {j \in held \cap (1 .. Len(allocs)) : allocs[j].data # NULL}}

\* all the pointers the caller holds, and the one it was handed last
AllHeld == 1 .. Len(allocs)
LastHeld == {Len(allocs)}

\* p = arena_realloc(arg, old.ptr, old.old_size, new_size)
ArenaRealloc(arg, old, new_size, grant) ==
  /\ pc \in {"live", "freed"}
  /\ UNCHANGED stores
  /\ LET call == [NoCall EXCEPT !.op = "realloc", !.arena = arg, !.size = new_size,
                                !.old = old.ptr, !.old_size = old.old_size,
                                !.grant = grant, !.pre = Snapshot]
     IN
     IF arg = "null" \/ SizeIsZero(new_size)
       THEN /\ last' = call
            /\ UNCHANGED <<pc, chain, heap, mem, allocs>>
     ELSE IF old.ptr = NullPtr
       THEN LET r == arena_realloc_null(chain, heap, mem, new_size, grant)
            IN  /\ last' = [call EXCEPT !.out = r.out, !.ret = r.ret, !.asz = r.asz,
                                        !.blk = r.blk, !.appended = r.appended]
                /\ chain' = r.chain
                /\ heap' = r.heap
                /\ mem' = r.mem
                /\ IF r.out = "exit"
                     THEN pc' = "exited" /\ UNCHANGED allocs
                     ELSE /\ Len(r.chain) <= MaxBlocks
                          /\ Len(allocs) < MaxLive
                          /\ allocs' = Append(allocs, Handle(r, new_size))
                          /\ UNCHANGED pc
     ELSE IF KeepsOld(old.old_size, new_size)
       THEN /\ last' = [call EXCEPT !.ret = old.ptr]
            /\ UNCHANGED <<pc, chain, heap, mem, allocs>>
     ELSE LET r == arena_alloc(chain, heap, mem, new_size, grant)
          IN  /\ chain' = r.chain
              /\ heap' = r.heap
              /\ IF r.out = "exit"
                   THEN /\ pc' = "exited"
                        /\ mem' = r.mem
                        /\ last' = [call EXCEPT !.out = "exit", !.asz = r.asz,
                                                !.appended = r.appended]
                        /\ UNCHANGED allocs
                   ELSE /\ Len(r.chain) <= MaxBlocks
                        /\ Len(allocs) < MaxLive
                        /\ allocs' = Append(allocs, Handle(r, new_size))
                        /\ IF r.ret = NullPtr
                             THEN /\ mem' = r.mem
                                  /\ last' = [call EXCEPT !.asz = r.asz, !.blk = r.blk,
                                                          !.appended = r.appended]
                                  /\ UNCHANGED pc
                           ELSE IF MemcpyDefined(r.chain, r.ret, old.ptr, old.old_size)
                             THEN /\ mem' = memcpy(r.chain, r.mem, r.ret, old.ptr,
                                                   old.old_size)
                                  /\ last' = [call EXCEPT !.ret = r.ret, !.asz = r.asz,
                                                          !.blk = r.blk,
                                                          !.appended = r.appended]
                                  /\ UNCHANGED pc
                           ELSE \* undefined behaviour: the process crashes, or the
                                \* bytes that fall inside the block are copied
                                /\ mem' = memcpy(r.chain, r.mem, r.ret, old.ptr,
                                                 old.old_size)
                                /\ last' = [call EXCEPT !.out = "ub", !.ret = r.ret,
                                                        !.asz = r.asz, !.blk = r.blk,
                                                        !.appended = r.appended]
                                /\ pc' \in {"crashed", pc}

\* whether arena_alloc(size) has to append a block to the chain
NeedsBlock(ch, size) ==
  LET asz == arena_align_size(size, ARENA_ALIGNMENT)
  IN  size # 0 /\ \A i \in 1 .. Len(ch) : NoRoom(ch[i], asz)

\* what the provider can do during a call: it only matters to a call that
\* asks it for memory
GrantChoices(size) == IF NeedsBlock(chain, size) THEN Grants ELSE {MaxGrant}

\* calls that pass a NULL arena
NullArena ==
  \/ ArenaAlloc("null", 1, MaxGrant)
  \/ ArenaRealloc("null", [ptr |-> NullPtr, old_size |-> 0], 1, MaxGrant)
  \/ ArenaReset("null")
  \/ ArenaFree("null")

\* what a caller does who draws capacities from caps, sizes from sizes and
\* old pointers from olds, and allocates while pc is in states
Call(caps, sizes, olds, states) ==
  \/ \E c \in caps, g \in Grants : ArenaInit(c, g)
  \/ /\ pc \in states
     /\ \E s \in sizes : \E g \in GrantChoices(s) : ArenaAlloc("arena", s, g)
  \/ /\ pc \in states
     /\ \E o \in olds, n \in sizes : \E g \in GrantChoices(n) :
          ArenaRealloc("arena", o, n, g)
  \/ NullArena

\* the calls that end the life of every pointer handed out
Release ==
  \/ ArenaReset("arena")
  \/ ArenaFree("arena")

\* a caller that keeps the contract: no allocation between arena_free and the
\* next arena_init
InContract == {"live"}

Next == Call(InitCaps, AllocSizes, OldPtrs(LastHeld, {11}), InContract) \/ Release

Spec == Init /\ [][Next]_vars

\* a caller whose sizes stay far below the largest size_t
NextModest ==
  Call(InitCaps, ModestSizes, OldPtrs(LastHeld, {11}), InContract) \/ Release

SpecModest == Init /\ [][NextModest]_vars

\* a caller that goes on allocating after arena_free, without arena_init
AfterFree == {"live", "freed"}

NextReuse ==
  Call(InitCaps, ReuseSizes, OldPtrs(LastHeld, {11}), AfterFree) \/ Release

SpecReuse == Init /\ [][NextReuse]_vars

\* arena_alloc for each of the sizes from the k-th on, in order; st carries
\* the chain, the heap, the memory, the provider's supply, the pointers
\* returned so far and the number of blocks appended so far
RECURSIVE arena_alloc_each(_, _, _)
arena_alloc_each(st, sizes, k) ==
  IF k > Len(sizes) \/ st.out = "exit" THEN st
  ELSE LET r == arena_alloc(st.chain, st.heap, st.mem, sizes[k], st.grant)
       IN  arena_alloc_each(
             [chain |-> r.chain, heap |-> r.heap, mem |-> r.mem, grant |-> r.grant,
              out |-> r.out, appended |-> st.appended + r.appended,
              handles |-> IF r.out = "exit" THEN st.handles
                          ELSE Append(st.handles, Handle(r, sizes[k]))],
             sizes, k + 1)

\* the caller resets the arena and allocates again, in the same order, the
\* sizes it has allocated since the arena was last emptied
Replay(grant) ==
  /\ pc = "live"
  /\ allocs # <<>>
  /\ UNCHANGED stores
  /\ LET sizes == [i \in 1 .. Len(allocs) |-> allocs[i].req]
         r == arena_alloc_each(
                [chain |-> arena_reset(chain, 1), heap |-> heap, mem |-> mem,
                 grant |-> grant, out |-> "ret", appended |-> 0, handles |-> <<>>],
                sizes, 1)
     IN  /\ chain' = r.chain
         /\ heap' = r.heap
         /\ mem' = r.mem
         /\ allocs' = r.handles
         /\ IF r.out = "exit"
              THEN pc' = "exited"
              ELSE Len(r.chain) <= MaxBlocks /\ UNCHANGED pc
         /\ last' = [NoCall EXCEPT !.op = "replay", !.arena = "arena",
                                   !.out = r.out, !.appended = r.appended,
                                   !.grant = grant, !.pre = Snapshot]

\* a caller that repeats its allocations after a reset
NextReplay ==
  \/ Call(InitCaps, ReplaySizes, OldPtrs(LastHeld, {11}), InContract)
  \/ \E g \in Grants : Replay(g)

SpecReplay == Init /\ [][NextReplay]_vars

\* a caller who also writes to the memory it is handed
NextMem == Call(MemCaps, MemSizes, OldPtrs(AllHeld, {0, 11}), InContract) \/ Store

SpecMem == Init /\ [][NextMem]_vars

----------------------------------------------------------------------------
(* Properties *)

Max(a, b) == IF a > b THEN a ELSE b

\* size rounded up to the next multiple of the alignment, in the integers
RoundUp(size) == ((size + ARENA_ALIGNMENT - 1) \div ARENA_ALIGNMENT) * ARENA_ALIGNMENT

\* the last call ran arena_alloc with a size >= 1 on the arena, directly or
\* from arena_realloc
AllocRan ==
  /\ last.arena = "arena"
  /\ last.size >= 1
  /\ \/ last.op = "alloc"
     \/ /\ last.op = "realloc"
        /\ last.old = NullPtr \/ last.size > last.old_size

\* ... and that arena_alloc returned
AllocReturned == AllocRan /\ last.out # "exit"

\* the chain before the last call, and the used counter a block had then
Before == last.pre.chain
UsedBefore(i) == IF i <= Len(Before) THEN Before[i].size ELSE 0

\* C1: in every reachable state every block of the chain has
\* used (size) <= capacity.
C1_CapacityBound ==
  \A i \in 1 .. Len(chain) : chain[i].size <= chain[i].capacity

\* an allocation has just filled a block beyond the head to the last byte
C1_Witness ==
  /\ AllocReturned
  /\ last.blk >= 2
  /\ UsedBefore(last.blk) > 0
  /\ chain[last.blk].size = chain[last.blk].capacity

\* C2: every pointer arena_alloc returns for a size >= 1 lies at an offset of
\* its block that is a multiple of the alignment, and every block's used
\* counter is always a multiple of the alignment.
C2_Aligned ==
  /\ \A i \in 1 .. Len(chain) : chain[i].size % ARENA_ALIGNMENT = 0
  /\ AllocReturned => last.ret.off % ARENA_ALIGNMENT = 0

\* an allocation of an odd size placed after another allocation of an odd size
C2_Witness ==
  /\ AllocReturned
  /\ last.size % ARENA_ALIGNMENT # 0
  /\ last.ret.off > 0
  /\ \E i \in 1 .. Len(last.pre.allocs) :
       /\ last.pre.allocs[i].req % ARENA_ALIGNMENT # 0
       /\ last.pre.allocs[i].data = last.ret.data

\* the regions [off, off + asz) of two pointers do not overlap
Disjoint(h, k) ==
  \/ h.data # k.data
  \/ h.off + h.asz <= k.off
  \/ k.off + k.asz <= h.off

\* C3: the regions reserved by any two calls of arena_alloc with no reset or
\* free between them are disjoint.
C3_Disjoint ==
  \A i, j \in 1 .. Len(allocs) : i < j => Disjoint(allocs[i], allocs[j])

\* the blocks the last call appended
Appended == (Len(Before) + 1) .. (Len(Before) + last.appended)

\* C4 as claimed: the capacity of the block that a returning call appended is
\* twice the larger of the capacity of the block that was the tail and the
\* aligned size.
C4_TwiceTail ==
  AllocReturned =>
    \A n \in Appended :
      n >= 2 => chain[n].capacity = 2 * Max(chain[n - 1].capacity, last.asz)

\* a capacity as arena_alloc computes and arena_init adjusts it
Wrapped(x) == IF x % SIZE_MOD = 0 THEN ARENA_INIT_SIZE ELSE x % SIZE_MOD

\* C4 as amended: an appended block's capacity is twice the larger of the
\* capacity of the head block and the aligned size, taken modulo 2^WordBits,
\* the default capacity standing in for 0.
C4_TwiceHead ==
  AllocRan =>
    \A n \in Appended :
      chain[n].capacity = Wrapped(2 * Max(Before[1].capacity, last.asz))

\* a block is appended behind a tail that is larger than the head and the request
C4_Witness ==
  /\ AllocReturned
  /\ last.appended = 1
  /\ Len(Before) >= 2
  /\ Before[Len(Before)].capacity > Max(Before[1].capacity, last.asz)

\* C5: a call of arena_alloc that appends, appends exactly one block, of a
\* capacity >= the aligned size, and serves the request at offset 0 of it.
C5_SingleAppend ==
  (AllocRan /\ last.appended >= 1) =>
     /\ last.appended = 1
     /\ last.out # "exit"
     /\ Len(chain) = Len(Before) + 1
     /\ chain[Len(chain)].capacity >= last.asz
     /\ last.blk = Len(chain)
     /\ last.ret = Ptr(chain[Len(chain)].data, 0)

\* used + aligned size <= capacity, in the integers
Fits(blk, asz) == blk.size + asz <= blk.capacity

\* C6: arena_alloc is served by the first block, head to tail, with
\* used + aligned(size) <= capacity, and appends only when there is none.
C6_FirstFit ==
  AllocReturned =>
    /\ \A i \in 1 .. Len(Before) : i < last.blk => ~Fits(Before[i], last.asz)
    /\ last.blk <= Len(Before) => Fits(Before[last.blk], last.asz)
    /\ last.appended > 0 => \A i \in 1 .. Len(Before) : ~Fits(Before[i], last.asz)

\* C7: arena_alloc returns the pointer at the offset the serving block's used
\* counter had, advances that counter by the size rounded up to a multiple of
\* 8, and leaves the used counter of every other block as it was.
C7_Bump ==
  AllocReturned =>
    /\ last.ret.off = UsedBefore(last.blk)
    /\ chain[last.blk].size = UsedBefore(last.blk) + RoundUp(last.size)
    /\ \A i \in 1 .. Len(chain) : i # last.blk => chain[i].size = UsedBefore(i)

\* capacity, data and struct of every block, in order
Layout(ch) ==
  [i \in 1 .. Len(ch) |->
     [capacity |-> ch[i].capacity, data |-> ch[i].data, self |-> ch[i].self]]

\* C8: after arena_reset every used counter is 0 and total_used is 0, while
\* the blocks, their order, capacities and memory, and total_capacity are as
\* before the reset.
C8_Reset ==
  (last.op = "reset" /\ last.arena = "arena") =>
     /\ \A i \in 1 .. Len(chain) : chain[i].size = 0
     /\ arena_total_used("arena", chain) = 0
     /\ Layout(chain) = Layout(Before)
     /\ arena_total_capacity("arena", chain) = arena_total_capacity("arena", Before)
     /\ mem = last.pre.mem
     /\ heap = last.pre.heap

\* a reset of a chain of several blocks, a later one of them in use
C8_Witness ==
  /\ last.op = "reset"
  /\ last.arena = "arena"
  /\ Len(Before) >= 2
  /\ \E i \in 2 .. Len(Before) : Before[i].size > 0
  /\ Before[1].size > 0

\* the last call ran arena_alloc, the call before it was arena_reset, and the
\* size is at most n
AllocAfterReset(n) ==
  /\ AllocRan
  /\ last.pre.measured.reset
  /\ last.size <= n

\* the request was served from a block that was there before the call
ServedFromExisting ==
  /\ last.out # "exit"
  /\ last.appended = 0
  /\ last.blk \in 1 .. Len(Before)
  /\ Len(chain) = Len(Before)

\* C9 as claimed: the arena_alloc that follows a reset, of a size up to the
\* total_used measured before the reset, is served from an existing block.
C9_UpToTotalUsed ==
  AllocAfterReset(last.pre.measured.total) => ServedFromExisting

\* C9 as amended: ... of a size up to the largest used counter that a single
\* block had before the reset ...
C9_UpToLargestUsed ==
  AllocAfterReset(last.pre.measured.largest) => ServedFromExisting

\* after a reset a request that the head cannot hold is served from a later block
C9_Witness ==
  /\ AllocAfterReset(last.pre.measured.largest)
  /\ last.blk >= 2
  /\ last.size > Before[1].capacity

\* the last call was arena_realloc(arena, old, old_size, new_size) with a
\* non-NULL old and 1 <= new_size <= old_size
ReallocNotLarger ==
  /\ last.op = "realloc"
  /\ last.arena = "arena"
  /\ last.old # NullPtr
  /\ last.size >= 1
  /\ last.size <= last.old_size

\* C10: such a call returns old itself and leaves the arena as it was: no
\* used counter changes, no block is appended, no byte is copied or modified.
C10_ReallocKeeps ==
  ReallocNotLarger =>
     /\ last.out = "ret"
     /\ last.ret = last.old
     /\ chain = Before
     /\ mem = last.pre.mem
     /\ heap = last.pre.heap
     /\ allocs = last.pre.allocs

\* such a call on a region the caller has written, with equal sizes
C10_Witness ==
  /\ ReallocNotLarger
  /\ last.size = last.old_size
  /\ last.old.off \in DOMAIN mem[last.old.data]
  /\ Len(allocs) >= 2

\* the last call was arena_realloc(arena, h, old_size, new_size) with h a
\* pointer handed out since the last reset for old_size bytes, and
\* new_size > old_size, and the provider did not fail
ReallocLarger ==
  /\ last.op = "realloc"
  /\ last.arena = "arena"
  /\ last.old # NullPtr
  /\ last.size > last.old_size
  /\ last.out # "exit"
  /\ \E i \in 1 .. Len(last.pre.allocs) :
       /\ Ptr(last.pre.allocs[i].data, last.pre.allocs[i].off) = last.old
       /\ last.pre.allocs[i].req = last.old_size

\* the first n bytes behind pointer q in mm are those behind pointer p in nn
SameBytes(mm, q, nn, p, n) ==
  /\ p.data \in DOMAIN nn
  /\ q.data \in DOMAIN mm
  /\ \A k \in 0 .. (n - 1) :
       (p.off + k) \in DOMAIN nn[p.data] =>
          /\ (q.off + k) \in DOMAIN mm[q.data]
          /\ mm[q.data][q.off + k] = nn[p.data][p.off + k]

\* the used counter of its block still covers the region of handle h
Reserved(ch, h) ==
  /\ h.blk \in 1 .. Len(ch)
  /\ ch[h.blk].data = h.data
  /\ ch[h.blk].size >= h.off + h.asz

\* C11: arena_realloc of a live pointer h to a larger size returns a pointer
\* other than h whose first old_size bytes are those of h's region; the bytes
\* of h's region are unchanged and its space stays reserved.
C11_ReallocGrows ==
  ReallocLarger =>
     /\ last.out = "ret"
     /\ last.ret # NullPtr
     /\ last.ret # last.old
     /\ SameBytes(mem, last.ret, last.pre.mem, last.old, last.old_size)
     /\ SameBytes(mem, last.old, last.pre.mem, last.old, last.old_size)
     /\ \A i \in 1 .. Len(last.pre.allocs) :
          Ptr(last.pre.allocs[i].data, last.pre.allocs[i].off) = last.old =>
             Reserved(chain, last.pre.allocs[i])

\* the last call was arena_realloc(arena, NULL, old_size, new_size)
ReallocOfNull ==
  /\ last.op = "realloc"
  /\ last.arena = "arena"
  /\ last.old = NullPtr

\* C12: arena_realloc with a NULL old pointer returns the pointer and leaves
\* the state that arena_alloc(arena, new_size) returns and leaves when run
\* from the same state with the same provider, whatever old_size is.
C12_ReallocNullIsAlloc ==
  ReallocOfNull =>
     LET r == arena_alloc(Before, last.pre.heap, last.pre.mem, last.size, last.grant)
     IN  /\ last.out = r.out
         /\ last.ret = r.ret
         /\ chain = r.chain
         /\ heap = r.heap
         /\ mem = r.mem
         /\ last.blk = r.blk
         /\ last.appended = r.appended

\* such a call with an old_size above 0 that had to append a block
C12_Witness ==
  /\ ReallocOfNull
  /\ last.old_size > 0
  /\ last.appended = 1
  /\ last.ret # NullPtr
  /\ Len(Before) >= 2

\* the last call was arena_alloc(arena, 0) or arena_realloc(arena, .., .., 0)
ZeroRequest ==
  /\ last.op \in {"alloc", "realloc"}
  /\ last.arena = "arena"
  /\ last.size = 0

\* C13: arena_alloc with size 0 and arena_realloc with new_size 0 return NULL
\* and leave the arena as it was: no used counter advances, no block is
\* appended.
C13_ZeroIsNull ==
  ZeroRequest =>
     /\ last.out = "ret"
     /\ last.ret = NullPtr
     /\ last.appended = 0
     /\ chain = Before
     /\ heap = last.pre.heap
     /\ mem = last.pre.mem
     /\ allocs = last.pre.allocs

\* arena_realloc of a held pointer to size 0, on a chain of two blocks in use
C13_Witness ==
  /\ ZeroRequest
  /\ last.op = "realloc"
  /\ last.old # NullPtr
  /\ last.old_size > 0
  /\ Len(chain) >= 2
  /\ \A i \in 1 .. Len(chain) : chain[i].size > 0

\* the last call was arena_free(arena)
FreeRan == last.op = "free" /\ last.arena = "arena"

\* how often the handle x is passed to free() by arena_free on the chain ch
TimesFreed(ch, x) == Cardinality({k \in 1 .. Len(FreeCalls(ch)) : FreeCalls(ch)[k] = x})

\* C14: after arena_free the head has capacity 0, used 0, no data and no next
\* block, so total_capacity and total_used are 0; the data of every block and
\* the struct of every block but the head were released exactly once.
C14_FreeClears ==
  FreeRan =>
     /\ Len(chain) = 1
     /\ chain[1].capacity = 0
     /\ chain[1].size = 0
     /\ chain[1].data = NULL
     /\ arena_total_capacity("arena", chain) = 0
     /\ arena_total_used("arena", chain) = 0
     /\ \A i \in 1 .. Len(Before) :
          /\ Before[i].data # NULL =>
               /\ TimesFreed(Before, Before[i].data) = 1
               /\ Before[i].data \in last.pre.heap
               /\ Before[i].data \notin heap
          /\ i >= 2 =>
               /\ TimesFreed(Before, Before[i].self) = 1
               /\ Before[i].self \in last.pre.heap
               /\ Before[i].self \notin heap
     /\ \A k \in 1 .. Len(FreeCalls(Before)) :
          FreeCalls(Before)[k] # NULL => FreeCalls(Before)[k] \in last.pre.heap
     /\ heap = {}
     /\ DOMAIN mem = {}

\* arena_free of a chain of three blocks, all of them in use
C14_Witness ==
  /\ FreeRan
  /\ Len(Before) = 3
  /\ \A i \in 1 .. 3 : Before[i].size > 0

\* C15: an arena_alloc of a size >= 1 that returns after arena_free (and
\* before the next arena_init) is served from a block behind the head, and
\* the pointer it returns lies in memory that has not been released.
C15_AllocAfterFree ==
  (AllocReturned /\ pc = "freed") =>
     /\ last.blk >= 2
     /\ last.ret # NullPtr
     /\ last.ret.data = chain[last.blk].data
     /\ last.ret.data \in heap
     /\ chain[1].data = NULL

\* C16: on an initialized arena an arena_alloc of a size >= 1 that returns
\* (the provider did not fail) returns a pointer that is not NULL; a call of
\* arena_alloc that returns NULL had size 0 or a NULL arena.
C16_NonNull ==
  /\ (AllocReturned /\ pc = "live") =>
        /\ last.ret # NullPtr
        /\ last.ret.data = chain[last.blk].data
        /\ last.ret.data \in heap
  /\ (last.op = "alloc" /\ pc = "live" /\ last.out = "ret" /\ last.ret = NullPtr) =>
        (last.size = 0 \/ last.arena = "null")

\* an allocation whose aligned size wrapped to 0, behind another allocation,
\* on a chain of several blocks
C16_Witness ==
  /\ AllocReturned
  /\ pc = "live"
  /\ last.op = "alloc"
  /\ last.asz = 0
  /\ last.ret.off > 0
  /\ Len(chain) >= 2

\* the last call was arena_init, and malloc did not fail
InitRan == last.op = "init" /\ last.out = "ret"

\* C17: arena_init(c) yields a chain of exactly one block, with used 0 and no
\* next block, whose capacity is c when c > 0 and the default 128 when c = 0.
C17_InitOneBlock ==
  InitRan =>
     /\ Len(chain) = 1
     /\ chain[1].size = 0
     /\ chain[1].capacity = (IF last.size > 0 THEN last.size ELSE ARENA_INIT_SIZE)
     /\ chain[1].data # NULL
     /\ heap = {chain[1].data}

\* arena_init(0) on a variable that arena_free has cleared
C17_Witness ==
  /\ InitRan
  /\ last.size = 0
  /\ Len(Before) = 1
  /\ Before[1].capacity = 0
  /\ heap # {}

\* the capacities of the blocks, head to tail
Capacities(ch) == [i \in 1 .. Len(ch) |-> ch[i].capacity]

\* the sequence s is a prefix of the sequence t
IsPrefix(s, t) == Len(s) <= Len(t) /\ s = SubSeq(t, 1, Len(s))

\* C18: across every call of arena_alloc, arena_realloc and arena_reset the
\* capacities of the chain before the call are a prefix of those after it (and
\* so are the blocks themselves): no block is removed, reordered or resized.
C18_AppendOnly ==
  last.op \in {"alloc", "realloc", "reset"} =>
     /\ IsPrefix(Capacities(Before), Capacities(chain))
     /\ IsPrefix(Layout(Before), Layout(chain))
     /\ Len(chain) = Len(Before) + last.appended

\* a call that appended a third block behind two blocks of different capacity
C18_Witness ==
  /\ last.op \in {"alloc", "realloc"}
  /\ last.appended >= 1
  /\ Len(Before) >= 2
  /\ Before[1].capacity # Before[2].capacity
  /\ Len(chain) > Len(Before)

\* the caller has just reset the arena and repeated its allocations
Replayed == last.op = "replay"

\* C19: when the allocations made on an emptied arena are repeated after
\* arena_reset, with the same sizes in the same order, no block is appended
\* and every allocation is served by the same block at the same offset as the
\* first time.
C19_ReplaySame ==
  Replayed =>
     /\ last.out = "ret"
     /\ last.appended = 0
     /\ Len(allocs) = Len(last.pre.allocs)
     /\ \A i \in 1 .. Len(allocs) :
          /\ allocs[i].req = last.pre.allocs[i].req
          /\ allocs[i].blk = last.pre.allocs[i].blk
          /\ allocs[i].data = last.pre.allocs[i].data
          /\ allocs[i].off = last.pre.allocs[i].off
     /\ Layout(chain) = Layout(Before)

\* the repeated allocations are spread over three blocks, two of which the
\* first run had to append
C19_Witness ==
  /\ Replayed
  /\ Len(allocs) >= 3
  /\ Len(chain) >= 3
  /\ \A b \in 1 .. 3 : \E i \in 1 .. Len(allocs) : allocs[i].blk = b

\* C20: for every size from 1 to the largest size_t, the arithmetic being
\* modulo 2^WordBits, arena_alloc terminates (it does not append block after
\* block) and, when it returns, has reserved at least size bytes: the used
\* counter of the serving block has advanced by at least size, and the
\* region [offset, offset + size) lies inside the block's capacity.
C20_Reserves ==
  /\ AllocRan => last.appended <= 1
  /\ AllocReturned =>
        /\ chain[last.blk].size - UsedBefore(last.blk) >= last.size
        /\ last.ret.off + last.size <= chain[last.blk].capacity

====
